---- MODULE Spec2Model ----
(***************************************************************************)
(* Model of provider/common_lld.go: the generic create/read/update/delete  *)
(* handlers of a Zabbix low-level-discovery rule resource, the object      *)
(* builder (buildLLDObject, lldGeneratePreprocessors) and the flattener    *)
(* (flattenlldPreprocessors).                                              *)
(*                                                                         *)
(* Strings whose characters matter (preprocessor parameters, which are     *)
(* joined and split on "\n") are sequences of one-character strings; all   *)
(* other strings are opaque values.                                        *)
(*                                                                         *)
(* The Zabbix API client (github.com/tpretz/go-zabbix-api) is outside the  *)
(* repository.  Its calls are modelled as a store of rules plus an outcome *)
(* chosen by the environment: any call may fail with an API error, and a   *)
(* query may answer with the stored rule several times over.               *)
(*                                                                         *)
(* The two injected hooks (LLDHandler c and r) are parameters of the       *)
(* handlers; the model records their invocation and argument and takes     *)
(* them to leave the common-schema fields alone.                           *)
(***************************************************************************)
EXTENDS Integers, Sequences, FiniteSets, TLC

\* ------------------------------------------------------------------ bounds
\* longest params list of a configured preprocessor
MaxParams == 2
\* longest preprocessor list of a rule in the builder/flattener specification
MaxPre == 1
\* longest wire params string of a rule handed to the flattener directly
MaxWireLen == 3
\* number of rules the server creates (caps the identifier counter)
MaxCreate == 2
\* most records the server answers one query with
MaxMatches == 2

\* ------------------------------------------------------------- value sets
NL == "\n"

Chars == {"a", "b", NL}

WhiteSpace == {NL}

\* validation.StringIsNotWhiteSpace: not empty and not only white space
StringIsNotWhiteSpace(s) == \E i \in 1..Len(s) : s[i] \notin WhiteSpace

\* sequences over S of length 0..n
SeqUpTo(S, n) == UNION {[1..k -> S] : k \in 0..n}

\* parameter strings a configuration is drawn from: "a", "b", "a\nb"
ParamStrings == {<<"a">>, <<"b">>, <<"a", NL, "b">>}

Types == {"5", "12"}

ErrorHandlers == {"", "0"}

HostIds == {"10", "20"}

\* key, name and delay of a configuration
CommonFields ==
    {[key |-> "k1", name |-> "n1", delay |-> "3600"],
     [key |-> "k2", name |-> "n2", delay |-> "60"]}

ApiErrors == {"api: transport error", "api: invalid params"}

NotFound == "api: no permissions to referred object or it does not exist"

MultipleFound == "multiple llds found"

\* one configured preprocessor block (lldPreprocessorSchema)
PreprocessorBlocks ==
    [type : Types, params : SeqUpTo(ParamStrings, MaxParams),
     error_handler : ErrorHandlers, error_handler_params : {""}]

\* the schema's constraints on a preprocessor block
lldPreprocessorSchema(p) ==
    /\ p.type \in Types
    /\ \A i \in 1..Len(p.params) : StringIsNotWhiteSpace(p.params[i])

\* the schema's constraints on the common fields
lldCommonSchema(c) ==
    /\ c.hostid \in HostIds
    /\ c.delay # ""
    /\ c.key # ""
    /\ c.name # ""

\* a local record (schema.ResourceData) holding configuration c and identifier id
Local(id, hostid, key, name, delay, preprocessor) ==
    [id |-> id, hostid |-> hostid, key |-> key, name |-> name,
     delay |-> delay, preprocessor |-> preprocessor]

ValidConfig(c) ==
    /\ lldCommonSchema(c)
    /\ \A i \in 1..Len(c.preprocessor) : lldPreprocessorSchema(c.preprocessor[i])

\* ------------------------------------------------------ strings.Join/Split
RECURSIVE Join(_, _)
Join(elems, sep) ==
    IF Len(elems) = 0 THEN <<>>
    ELSE IF Len(elems) = 1 THEN elems[1]
    ELSE elems[1] \o <<sep>> \o Join(Tail(elems), sep)

RECURSIVE Split(_, _)
Split(s, sep) ==
    IF Len(s) = 0 THEN <<<<>>>>
    ELSE LET rest == Split(Tail(s), sep) IN
         IF Head(s) = sep
         THEN <<<<>>>> \o rest
         ELSE <<<<Head(s)>> \o rest[1]>> \o Tail(rest)

\* ------------------------------------------------- builder and flattener
lldGeneratePreprocessors(dd) ==
    [i \in 1..Len(dd.preprocessor) |->
        [Type |-> dd.preprocessor[i].type,
         Params |-> Join(dd.preprocessor[i].params, NL),
         ErrorHandler |-> dd.preprocessor[i].error_handler,
         ErrorHandlerParams |-> dd.preprocessor[i].error_handler_params]]

\* a builder that leaves the host id out of the request object
buildLLDObjectNoHost(dd) ==
    [ItemID |-> "", Key |-> dd.key, HostID |-> "", Name |-> dd.name,
     Delay |-> dd.delay, Preprocessors |-> lldGeneratePreprocessors(dd)]

buildLLDObject(dd) ==
    [ItemID |-> "", Key |-> dd.key, HostID |-> dd.hostid, Name |-> dd.name,
     Delay |-> dd.delay, Preprocessors |-> lldGeneratePreprocessors(dd)]

\* a flattener that yields an empty params list for an empty wire string
flattenEmptyAsNoParams(lld) ==
    [i \in 1..Len(lld.Preprocessors) |->
        [type |-> lld.Preprocessors[i].Type,
         params |-> IF Len(lld.Preprocessors[i].Params) = 0 THEN <<>>
                    ELSE Split(lld.Preprocessors[i].Params, NL),
         error_handler |-> lld.Preprocessors[i].ErrorHandler,
         error_handler_params |-> lld.Preprocessors[i].ErrorHandlerParams]]

flattenlldPreprocessors(lld) ==
    [i \in 1..Len(lld.Preprocessors) |->
        [type |-> lld.Preprocessors[i].Type,
         params |-> Split(lld.Preprocessors[i].Params, NL),
         error_handler |-> lld.Preprocessors[i].ErrorHandler,
         error_handler_params |-> lld.Preprocessors[i].ErrorHandlerParams]]

\* ------------------------------------------------------- the API client
\* one entry of a handler's call log: the step, its argument, and for an API
\* call the error ("nil" for none) and the list it returned
Ev(ev, arg, err, out) == [ev |-> ev, arg |-> arg, err |-> err, out |-> out]

Step(ev, arg) == Ev(ev, arg, "nil", <<>>)

\* what a call may answer: success or an API error
ApiOutcomes == {"nil"} \cup ApiErrors

\* what a query may answer: an API error, or the matching rule n times over
GetOutcomes ==
    {[err |-> e, n |-> 1] : e \in ApiErrors}
        \cup {[err |-> "nil", n |-> k] : k \in 1..MaxMatches}

\* the server's identifier for the n-th rule it creates
AssignedId(n) == ToString(100 + n)

Matching(rem, id) == {r \in rem : r.ItemID = id}

\* api.LLDsCreate: on success stores the rule and assigns its ItemID in place
LLDsCreate(rem, nid, llds, out) ==
    IF out # "nil"
    THEN [err |-> out, llds |-> llds, remote |-> rem, nextId |-> nid]
    ELSE LET stored == [llds[1] EXCEPT !.ItemID = AssignedId(nid)] IN
         [err |-> "nil", llds |-> <<stored>>,
          remote |-> rem \cup {stored}, nextId |-> nid + 1]

\* api.LLDsUpdate: on success the stored rule takes the submitted fields
LLDsUpdate(rem, llds, out) ==
    IF out # "nil" THEN [err |-> out, remote |-> rem]
    ELSE IF Matching(rem, llds[1].ItemID) = {}
    THEN [err |-> NotFound, remote |-> rem]
    ELSE [err |-> "nil",
          remote |-> (rem \ Matching(rem, llds[1].ItemID)) \cup {llds[1]}]

\* api.LLDsGet with lldids = [id]
LLDsGet(rem, id, g) ==
    IF g.err # "nil" THEN [err |-> g.err, llds |-> <<>>]
    ELSE IF Matching(rem, id) = {} THEN [err |-> "nil", llds |-> <<>>]
    ELSE [err |-> "nil",
          llds |-> [i \in 1..g.n |-> CHOOSE r \in Matching(rem, id) : TRUE]]

\* api.LLDDeleteByIds
LLDDeleteByIds(rem, ids, out) ==
    IF out # "nil" THEN [err |-> out, remote |-> rem]
    ELSE IF \A i \in 1..Len(ids) : Matching(rem, ids[i]) = {}
    THEN [err |-> NotFound, remote |-> rem]
    ELSE [err |-> "nil",
          remote |-> {r \in rem : \A i \in 1..Len(ids) : r.ItemID # ids[i]}]

\* ----------------------------------------------------------- the handlers
\* Each handler is a function of the local record dd, the server's rules and
\* the outcomes the API calls will have; its value is the local record, the
\* server's rules, the returned error and the log of its steps.

\* a read that reports a missing rule as an error and keeps the identifier
resourceLLDReadZeroIsError(dd, resp) ==
    LET call == <<Ev("LLDsGet", <<dd.id>>, resp.err, resp.llds)>> IN
    IF resp.err # "nil" THEN [d |-> dd, ret |-> resp.err, log |-> call]
    ELSE IF Len(resp.llds) < 1
    THEN [d |-> dd, ret |-> "lld not found", log |-> call]
    ELSE IF Len(resp.llds) > 1
    THEN [d |-> dd, ret |-> MultipleFound, log |-> call]
    ELSE LET lld == resp.llds[1] IN
         [d |-> Local(lld.ItemID, lld.HostID, lld.Key, lld.Name, lld.Delay,
                      flattenlldPreprocessors(lld)),
          ret |-> "nil",
          log |-> call \o <<Step("Set", <<lld>>), Step("r", <<lld>>)>>]

\* a read without the check for more than one record: it takes the first
resourceLLDReadTakesFirst(dd, resp) ==
    LET call == <<Ev("LLDsGet", <<dd.id>>, resp.err, resp.llds)>> IN
    IF resp.err # "nil" THEN [d |-> dd, ret |-> resp.err, log |-> call]
    ELSE IF Len(resp.llds) < 1
    THEN [d |-> [dd EXCEPT !.id = ""], ret |-> "nil",
          log |-> call \o <<Step("SetId", <<"">>)>>]
    ELSE LET lld == resp.llds[1] IN
         [d |-> Local(lld.ItemID, lld.HostID, lld.Key, lld.Name, lld.Delay,
                      flattenlldPreprocessors(lld)),
          ret |-> "nil",
          log |-> call \o <<Step("Set", <<lld>>), Step("r", <<lld>>)>>]

\* a read that clears the identifier when the query fails, too
resourceLLDReadClearsOnError(dd, resp) ==
    LET call == <<Ev("LLDsGet", <<dd.id>>, resp.err, resp.llds)>> IN
    IF resp.err # "nil"
    THEN [d |-> [dd EXCEPT !.id = ""], ret |-> resp.err,
          log |-> call \o <<Step("SetId", <<"">>)>>]
    ELSE IF Len(resp.llds) < 1
    THEN [d |-> [dd EXCEPT !.id = ""], ret |-> "nil",
          log |-> call \o <<Step("SetId", <<"">>)>>]
    ELSE IF Len(resp.llds) > 1
    THEN [d |-> dd, ret |-> MultipleFound, log |-> call]
    ELSE LET lld == resp.llds[1] IN
         [d |-> Local(lld.ItemID, lld.HostID, lld.Key, lld.Name, lld.Delay,
                      flattenlldPreprocessors(lld)),
          ret |-> "nil",
          log |-> call \o <<Step("Set", <<lld>>), Step("r", <<lld>>)>>]

resourceLLDRead(dd, resp) ==
    LET call == <<Ev("LLDsGet", <<dd.id>>, resp.err, resp.llds)>> IN
    IF resp.err # "nil" THEN [d |-> dd, ret |-> resp.err, log |-> call]
    ELSE IF Len(resp.llds) < 1
    THEN [d |-> [dd EXCEPT !.id = ""], ret |-> "nil",
          log |-> call \o <<Step("SetId", <<"">>)>>]
    ELSE IF Len(resp.llds) > 1
    THEN [d |-> dd, ret |-> MultipleFound, log |-> call]
    ELSE LET lld == resp.llds[1] IN
         [d |-> Local(lld.ItemID, lld.HostID, lld.Key, lld.Name, lld.Delay,
                      flattenlldPreprocessors(lld)),
          ret |-> "nil",
          log |-> call \o <<Step("Set", <<lld>>), Step("r", <<lld>>)>>]

\* a create that does not return on a failed API call
resourceLLDCreateIgnoresError(dd, rem, nid, out, g) ==
    LET lld == buildLLDObject(dd)
        llds == <<lld>>
        res == LLDsCreate(rem, nid, llds, out)
        head == <<Step("buildLLDObject", <<lld>>), Step("c", <<lld>>),
                  Ev("LLDsCreate", llds, res.err, res.llds)>>
        d1 == [dd EXCEPT !.id = res.llds[1].ItemID]
        rd == resourceLLDRead(d1, LLDsGet(res.remote, d1.id, g))
    IN  [d |-> rd.d, remote |-> res.remote, nextId |-> res.nextId,
         ret |-> rd.ret,
         log |-> head \o <<Step("SetId", <<d1.id>>)>> \o rd.log]

resourceLLDCreate(dd, rem, nid, out, g) ==
    LET lld == buildLLDObject(dd)
        llds == <<lld>>
        res == LLDsCreate(rem, nid, llds, out)
        head == <<Step("buildLLDObject", <<lld>>), Step("c", <<lld>>),
                  Ev("LLDsCreate", llds, res.err, res.llds)>>
    IN  IF res.err # "nil"
        THEN [d |-> dd, remote |-> res.remote, nextId |-> res.nextId,
              ret |-> res.err, log |-> head]
        ELSE LET d1 == [dd EXCEPT !.id = res.llds[1].ItemID]
                 rd == resourceLLDRead(d1, LLDsGet(res.remote, d1.id, g))
             IN  [d |-> rd.d, remote |-> res.remote, nextId |-> res.nextId,
                  ret |-> rd.ret,
                  log |-> head \o <<Step("SetId", <<d1.id>>)>> \o rd.log]

\* an update that runs the pre-submit hook before it sets the identifier
resourceLLDUpdateHookFirst(dd, rem, out, g) ==
    LET lld == [buildLLDObject(dd) EXCEPT !.ItemID = dd.id]
        llds == <<lld>>
        res == LLDsUpdate(rem, llds, out)
        head == <<Step("buildLLDObject", <<buildLLDObject(dd)>>),
                  Step("c", <<buildLLDObject(dd)>>), Step("ItemID", <<dd.id>>),
                  Ev("LLDsUpdate", llds, res.err, <<>>)>>
    IN  IF res.err # "nil"
        THEN [d |-> dd, remote |-> res.remote, ret |-> res.err, log |-> head]
        ELSE LET rd == resourceLLDRead(dd, LLDsGet(res.remote, dd.id, g)) IN
             [d |-> rd.d, remote |-> res.remote, ret |-> rd.ret,
              log |-> head \o rd.log]

resourceLLDUpdate(dd, rem, out, g) ==
    LET lld == [buildLLDObject(dd) EXCEPT !.ItemID = dd.id]
        llds == <<lld>>
        res == LLDsUpdate(rem, llds, out)
        head == <<Step("buildLLDObject", <<buildLLDObject(dd)>>),
                  Step("ItemID", <<dd.id>>), Step("c", <<lld>>),
                  Ev("LLDsUpdate", llds, res.err, <<>>)>>
    IN  IF res.err # "nil"
        THEN [d |-> dd, remote |-> res.remote, ret |-> res.err, log |-> head]
        ELSE LET rd == resourceLLDRead(dd, LLDsGet(res.remote, dd.id, g)) IN
             [d |-> rd.d, remote |-> res.remote, ret |-> rd.ret,
              log |-> head \o rd.log]

\* a delete that clears the local identifier once the call succeeded
resourceLLDDeleteClearsId(dd, rem, out) ==
    LET res == LLDDeleteByIds(rem, <<dd.id>>, out) IN
    [d |-> IF res.err = "nil" THEN [dd EXCEPT !.id = ""] ELSE dd,
     remote |-> res.remote, ret |-> res.err,
     log |-> <<Ev("LLDDeleteByIds", <<dd.id>>, res.err, <<>>)>>]

resourceLLDDelete(dd, rem, out) ==
    LET res == LLDDeleteByIds(rem, <<dd.id>>, out) IN
    [d |-> dd, remote |-> res.remote, ret |-> res.err,
     log |-> <<Ev("LLDDeleteByIds", <<dd.id>>, res.err, <<>>)>>]

\* ------------------------------------------------------------- the state
VARIABLES
    d,        \* the local record (schema.ResourceData) of the managed rule
    remote,   \* the rules the server stores
    nextId,   \* how many rules the server has created, plus one
    op,       \* the last operation run on the record
    ret,      \* the error it returned ("nil" for none)
    log,      \* the steps it took, in order
    pre,      \* the local record when it began
    rpre,     \* the server's rules when it began
    pstage,   \* builder/flattener specification: what has been computed
    pcfg,     \* its configuration record
    prule,    \* the rule built from it, or handed to the flattener directly
    pflat     \* the flattened preprocessor list

vars == <<d, remote, nextId, op, ret, log, pre, rpre, pstage, pcfg, prule, pflat>>

run == <<d, remote, nextId, op, ret, log, pre, rpre>>

pure == <<pstage, pcfg, prule, pflat>>

Handlers == {"create", "update", "read", "delete"}

Block(t, ps) ==
    [type |-> t, params |-> ps, error_handler |-> "0", error_handler_params |-> ""]

\* the preprocessor lists the lifecycle specification configures a rule with
RunPreprocessors ==
    {<<>>,
     <<Block("5", <<>>)>>,
     <<Block("5", <<<<"a">>, <<"b">>>>)>>,
     <<Block("12", <<<<"a">>>>), Block("5", <<<<"a", NL, "b">>>>)>>}

\* the configurations the driver may hand to a handler
Configs ==
    {Local("", h, c.key, c.name, c.delay, p) :
        h \in HostIds, c \in CommonFields, p \in RunPreprocessors}

\* the configurations of the builder/flattener specification
PureConfigs ==
    {Local("", "10", "k1", "n1", "3600", p) :
        p \in SeqUpTo(PreprocessorBlocks, MaxPre)}

\* the rules handed to the flattener as the server may return them
WireRules ==
    {[ItemID |-> "101", Key |-> "k1", HostID |-> "10", Name |-> "n1",
      Delay |-> "3600", Preprocessors |-> p] :
        p \in SeqUpTo([Type : Types, Params : SeqUpTo(Chars, MaxWireLen),
                       ErrorHandler : {"0"}, ErrorHandlerParams : {""}], MaxPre)}

Blank == Local("", "10", "k1", "n1", "3600", <<>>)

PureIdle ==
    /\ pstage = "idle"
    /\ pcfg = Blank
    /\ prule = buildLLDObject(Blank)
    /\ pflat = <<>>

Init ==
    /\ d \in Configs
    /\ remote = {}
    /\ nextId = 1
    /\ op = "init"
    /\ ret = "nil"
    /\ log = <<>>
    /\ pre = d
    /\ rpre = {}
    /\ PureIdle

\* the driver fills the record with a configuration; the identifier stays
Configure ==
    \E c \in Configs :
        /\ d' = [c EXCEPT !.id = d.id]
        /\ op' = "configure"
        /\ ret' = "nil"
        /\ log' = <<>>
        /\ pre' = d'
        /\ rpre' = remote
        /\ UNCHANGED <<remote, nextId, pure>>

\* the driver creates a rule that has no identifier yet
Create ==
    /\ d.id = ""
    /\ nextId <= MaxCreate
    /\ \E out \in ApiOutcomes, g \in GetOutcomes :
        LET r == resourceLLDCreate(d, remote, nextId, out, g) IN
        /\ d' = r.d
        /\ remote' = r.remote
        /\ nextId' = r.nextId
        /\ op' = "create"
        /\ ret' = r.ret
        /\ log' = r.log
        /\ pre' = d
        /\ rpre' = remote
        /\ UNCHANGED pure

Update ==
    \E out \in ApiOutcomes, g \in GetOutcomes :
        LET r == resourceLLDUpdate(d, remote, out, g) IN
        /\ d' = r.d
        /\ remote' = r.remote
        /\ op' = "update"
        /\ ret' = r.ret
        /\ log' = r.log
        /\ pre' = d
        /\ rpre' = remote
        /\ UNCHANGED <<nextId, pure>>

Read ==
    \E g \in GetOutcomes :
        LET r == resourceLLDRead(d, LLDsGet(remote, d.id, g)) IN
        /\ d' = r.d
        /\ op' = "read"
        /\ ret' = r.ret
        /\ log' = r.log
        /\ pre' = d
        /\ rpre' = remote
        /\ UNCHANGED <<remote, nextId, pure>>

Delete ==
    \E out \in ApiOutcomes :
        LET r == resourceLLDDelete(d, remote, out) IN
        /\ d' = r.d
        /\ remote' = r.remote
        /\ op' = "delete"
        /\ ret' = r.ret
        /\ log' = r.log
        /\ pre' = d
        /\ rpre' = remote
        /\ UNCHANGED <<nextId, pure>>

Next == Configure \/ Create \/ Update \/ Read \/ Delete

Spec == Init /\ [][Next]_vars

\* ------------------------------- the builder/flattener specification
RunIdle ==
    /\ d = Blank
    /\ remote = {}
    /\ nextId = 1
    /\ op = "init"
    /\ ret = "nil"
    /\ log = <<>>
    /\ pre = Blank
    /\ rpre = {}

InitPure ==
    /\ RunIdle
    /\ \/ /\ pstage = "config"
          /\ pcfg \in PureConfigs
          /\ prule = buildLLDObject(Blank)
       \/ /\ pstage = "wire"
          /\ pcfg = Blank
          /\ prule \in WireRules
    /\ pflat = <<>>

\* buildLLDObject on a configuration
Build ==
    /\ pstage = "config"
    /\ prule' = buildLLDObject(pcfg)
    /\ pstage' = "built"
    /\ UNCHANGED <<pcfg, pflat, run>>

\* flattenlldPreprocessors on a built rule or on a rule from the server
Flatten ==
    /\ pstage \in {"built", "wire"}
    /\ pflat' = flattenlldPreprocessors(prule)
    /\ pstage' = IF pstage = "built" THEN "flat" ELSE "wireflat"
    /\ UNCHANGED <<pcfg, prule, run>>

NextPure == Build \/ Flatten

SpecPure == InitPure /\ [][NextPure]_vars

\* ------------------------------------------------ reading the step log
Has(ev) == \E i \in 1..Len(log) : log[i].ev = ev

Count(ev) == Cardinality({i \in 1..Len(log) : log[i].ev = ev})

\* position of the first step named ev
At(ev) == CHOOSE i \in 1..Len(log) : log[i].ev = ev /\ \A j \in 1..(i - 1) : log[j].ev # ev

GetCall == log[At("LLDsGet")]

\* the mutating call of the last create or update
Mutation == IF op = "create" THEN "LLDsCreate" ELSE "LLDsUpdate"

CreateCallOk == op = "create" /\ Has("LLDsCreate") /\ log[At("LLDsCreate")].err = "nil"

CreateCallFailed == op = "create" /\ Has("LLDsCreate") /\ log[At("LLDsCreate")].err # "nil"

\* the local record at the moment the last operation invoked read
BeforeRead ==
    IF CreateCallOk
    THEN [pre EXCEPT !.id = log[At("LLDsCreate")].out[1].ItemID]
    ELSE pre

NoNewline(c) ==
    \A i \in 1..Len(c.preprocessor) :
        \A j \in 1..Len(c.preprocessor[i].params) :
            \A k \in 1..Len(c.preprocessor[i].params[j]) :
                c.preprocessor[i].params[j][k] # NL

NLCount(s) == Cardinality({i \in 1..Len(s) : s[i] = NL})

\* ---------------------------------------------------------------- claims

\* C1: for every valid configuration whose parameter strings hold no newline,
\* flattening the built rule gives back the configured preprocessor list:
\* same length, same order, same type, params, error_handler and
\* error_handler_params in every entry.
C1_FlattenBuildRoundTrip ==
    (pstage = "flat" /\ ValidConfig(pcfg) /\ NoNewline(pcfg)) =>
        /\ Len(pflat) = Len(pcfg.preprocessor)
        /\ \A i \in 1..Len(pflat) : pflat[i] = pcfg.preprocessor[i]

\* C2: when the query of a read answers with zero records, the read clears
\* the local identifier, returns no error, leaves every other local field as
\* it was and does not invoke the post-read hook.
C2_ZeroRecordsClearId ==
    (Has("LLDsGet") /\ GetCall.err = "nil" /\ Len(GetCall.out) = 0) =>
        /\ ret = "nil"
        /\ d.id = ""
        /\ d = [BeforeRead EXCEPT !.id = ""]
        /\ ~Has("r")
        /\ ~Has("Set")

C2_Witness ==
    /\ op = "read"
    /\ Has("LLDsGet") /\ GetCall.err = "nil" /\ Len(GetCall.out) = 0
    /\ pre.id # ""
    /\ d.id = ""

\* C3: when the query of a read answers with two or more records, the read
\* returns the consistency error, the local record is what it was before the
\* read, and the post-read hook is not invoked.
C3_ManyRecordsIsError ==
    (Has("LLDsGet") /\ GetCall.err = "nil" /\ Len(GetCall.out) >= 2) =>
        /\ ret = MultipleFound
        /\ d = BeforeRead
        /\ ~Has("r")
        /\ ~Has("Set")

C3_Witness ==
    /\ op = "read"
    /\ Has("LLDsGet") /\ GetCall.err = "nil" /\ Len(GetCall.out) >= 2
    /\ GetCall.out[1].Name # pre.name
    /\ GetCall.out[1].HostID # pre.hostid

\* C4: a create whose API call fails returns that call's error, leaves the
\* identifier empty and issues no read; and the identifier goes from empty to
\* non-empty only in a create whose API call succeeded, to the identifier the
\* server assigned to the rule built from the record.
C4_IdEmptyUntilCreated ==
    /\ [](CreateCallFailed =>
            /\ ret = log[At("LLDsCreate")].err
            /\ ret \in ApiErrors
            /\ pre.id = "" /\ d.id = ""
            /\ ~Has("LLDsGet")
            /\ ~Has("SetId"))
    /\ [][(d.id = "" /\ d'.id # "") =>
            /\ CreateCallOk'
            /\ d'.id = AssignedId(nextId)
            /\ [buildLLDObject(d) EXCEPT !.ItemID = d'.id] \in remote'
            /\ Matching(remote, d'.id) = {}]_vars

C4_Witness ==
    /\ CreateCallFailed
    /\ nextId > 1
    /\ d.id = ""

\* C5: after a create whose API call succeeded and whose read found exactly
\* one record, the local record has the key, name, delay, hostid and
\* preprocessor list of the configuration that was submitted, and the
\* server-assigned identifier.
C5_CreateRoundTrip ==
    (CreateCallOk /\ ret = "nil" /\ Has("r")) =>
        /\ d.key = pre.key
        /\ d.name = pre.name
        /\ d.delay = pre.delay
        /\ d.hostid = pre.hostid
        /\ d.preprocessor = pre.preprocessor
        /\ d.id = log[At("LLDsCreate")].out[1].ItemID

\* C6 as stated: an update never alters the host id; the request carries the
\* host id the remote rule already has, and the remote rule keeps it.
C6_UpdateKeepsHostId ==
    op = "update" =>
        \A old \in Matching(rpre, pre.id) :
            /\ log[At("LLDsUpdate")].arg[1].HostID = old.HostID
            /\ \A r \in Matching(remote, pre.id) : r.HostID = old.HostID

\* C6 amended: the update request is one rule carrying the identifier and the
\* host id of the local record as they were when update was invoked; the
\* remote rule's host id afterwards is that host id when the call succeeded
\* and the old one when it failed, so it is unchanged whenever the local
\* record's hostid was not changed.
C6_UpdateSendsLocalHostId ==
    op = "update" =>
        LET req == log[At("LLDsUpdate")] IN
        /\ Len(req.arg) = 1
        /\ req.arg[1].ItemID = pre.id
        /\ req.arg[1].HostID = pre.hostid
        /\ \A old \in Matching(rpre, pre.id) :
            \A r \in Matching(remote, pre.id) :
                /\ r.HostID = IF req.err = "nil" THEN pre.hostid ELSE old.HostID
                /\ pre.hostid = old.HostID => r.HostID = old.HostID

C6_Witness ==
    /\ op = "update"
    /\ log[At("LLDsUpdate")].err = "nil"
    /\ \E old \in Matching(rpre, pre.id) :
        /\ old.HostID = pre.hostid
        /\ old.Name # pre.name
        /\ \E r \in Matching(remote, pre.id) :
            r.HostID = old.HostID /\ r.Name = pre.name

\* C7 as stated: an operation that returns an error leaves the local record,
\* identifier included, as it was when the operation began.
C7_ErrorLeavesRecord ==
    (op \in Handlers /\ ret # "nil") => d = pre

\* C7 amended: an operation that returns an error leaves every field of the
\* local record as it was, and the identifier too, except in a create whose
\* API call succeeded and whose read then failed: there the identifier is the
\* one the server assigned.
C7_ErrorLeavesRecordButCreatedId ==
    (op \in Handlers /\ ret # "nil") =>
        IF CreateCallOk
        THEN /\ d = [pre EXCEPT !.id = log[At("LLDsCreate")].out[1].ItemID]
             /\ d.id # ""
             /\ pre.id = ""
        ELSE d = pre

C7_Witness ==
    /\ CreateCallOk
    /\ ret # "nil"
    /\ d.id # pre.id

\* C8: delete issues one delete call, for the one-element list holding the
\* local identifier, returns its result, issues no other call and leaves the
\* local record alone.
C8_DeleteOneCall ==
    op = "delete" =>
        /\ Len(log) = 1
        /\ log[1].ev = "LLDDeleteByIds"
        /\ log[1].arg = <<pre.id>>
        /\ ret = log[1].err
        /\ d = pre

C8_Witness ==
    /\ op = "delete"
    /\ ret = "nil"
    /\ pre.id # ""
    /\ Matching(rpre, pre.id) # {}
    /\ Matching(remote, pre.id) = {}

\* C9: in a create or an update the object is built, then (update) its
\* identifier is set from the local one, then the pre-submit hook runs once,
\* then the one mutating call is made with a one-element batch; read is
\* called only after that call succeeded, and the post-read hook runs only
\* after read found exactly one record and wrote the local fields.  After a
\* failed mutating call there is no read and no post-read hook.
C9_StepOrder ==
    op \in {"create", "update"} =>
        /\ Count("buildLLDObject") = 1 /\ Count("c") = 1
        /\ Count("LLDsCreate") + Count("LLDsUpdate") = 1
        /\ Count(Mutation) = 1
        /\ At("buildLLDObject") < At("c") /\ At("c") < At(Mutation)
        /\ op = "update" =>
            /\ Count("ItemID") = 1
            /\ At("buildLLDObject") < At("ItemID") /\ At("ItemID") < At("c")
            /\ log[At("ItemID")].arg = <<pre.id>>
            /\ log[At("c")].arg[1].ItemID = pre.id
            /\ log[At(Mutation)].arg[1].ItemID = pre.id
        /\ Len(log[At(Mutation)].arg) = 1
        /\ Count("LLDsGet") <= 1 /\ Count("r") <= 1
        /\ Has("LLDsGet") =>
            /\ log[At(Mutation)].err = "nil"
            /\ At(Mutation) < At("LLDsGet")
        /\ Has("r") =>
            /\ Has("LLDsGet") /\ Has("Set")
            /\ GetCall.err = "nil" /\ Len(GetCall.out) = 1
            /\ At("LLDsGet") < At("Set") /\ At("Set") < At("r")
            /\ d.id = GetCall.out[1].ItemID /\ d.hostid = GetCall.out[1].HostID
            /\ d.key = GetCall.out[1].Key /\ d.name = GetCall.out[1].Name
            /\ d.delay = GetCall.out[1].Delay
            /\ Len(d.preprocessor) = Len(GetCall.out[1].Preprocessors)
        /\ log[At(Mutation)].err # "nil" => ~Has("LLDsGet") /\ ~Has("r")

C9_Witness ==
    /\ op = "update"
    /\ Has("r")
    /\ pre.id # ""
    /\ d # pre

\* C10: the flattener gives every preprocessor a params list of (number of
\* newlines in the wire params string) + 1 elements, never an empty one; a
\* preprocessor configured with no params is built to the empty wire string
\* and flattens to the list holding one empty string.
C10_ParamsCountIsNewlinesPlusOne ==
    /\ pstage \in {"flat", "wireflat"} =>
        /\ Len(pflat) = Len(prule.Preprocessors)
        /\ \A i \in 1..Len(pflat) :
            /\ Len(pflat[i].params) = NLCount(prule.Preprocessors[i].Params) + 1
            /\ Len(pflat[i].params) >= 1
    /\ pstage \in {"built", "flat"} =>
        \A i \in 1..Len(pcfg.preprocessor) :
            Len(pcfg.preprocessor[i].params) = 0 =>
                /\ Len(prule.Preprocessors[i].Params) = 0
                /\ pstage = "flat" => pflat[i].params = <<<<>>>>

C10_Witness ==
    /\ pstage = "flat"
    /\ \E i \in 1..Len(pcfg.preprocessor) :
        /\ Len(pcfg.preprocessor[i].params) = 0
        /\ pflat[i].params = <<<<>>>>

====
